---- MODULE Spec2Model ----
(***************************************************************************)
(* BLE scanner add-on (ble_scanner/rootfs/opt/ble_scanner/main.py): the    *)
(* device registry of BLEScanner, its persistence to /data/devices.json,   *)
(* the scan flag and the MQTT connection check, driven by the Flask        *)
(* handlers and by incoming BLE advertisements.                            *)
(*                                                                         *)
(* Strings that the code takes apart (MAC addresses, service UUIDs,        *)
(* manufacturer names) are sequences of one-character strings; a literal   *)
(* of the code that is only stored or compared is a one-element sequence.  *)
(***************************************************************************)
EXTENDS Integers, Sequences, FiniteSets, TLC

\* ------------------------------------------------------------- bounds
\* The clock (datetime.now()) is read as an integer 0..MaxTime.
MaxTime == 1

\* The request threads that are followed step by step (of the worker's four).
NumThreads == 2

\* ------------------------------------------------------ string helpers
\* str.upper() on one character.
UpperChar(c) ==
    CASE c = "a" -> "A" [] c = "b" -> "B" [] c = "c" -> "C" [] c = "d" -> "D"
      [] c = "e" -> "E" [] c = "f" -> "F" [] OTHER -> c

\* str.lower() on one character.
LowerChar(c) ==
    CASE c = "A" -> "a" [] c = "B" -> "b" [] c = "C" -> "c" [] c = "D" -> "d"
      [] c = "E" -> "e" [] c = "F" -> "f" [] c = "O" -> "o" [] OTHER -> c

ToUpper(s) == [i \in 1..Len(s) |-> UpperChar(s[i])]

ToLower(s) == [i \in 1..Len(s) |-> LowerChar(s[i])]

\* str.replace(" ", "_")
ReplaceSpaces(s) == [i \in 1..Len(s) |-> IF s[i] = " " THEN "_" ELSE s[i]]

\* `sub in s` on strings.
Contains(sub, s) ==
    \E i \in 1..(Len(s) - Len(sub) + 1) : SubSeq(s, i, i + Len(sub) - 1) = sub

\* s[-n:]
Suffix(s, n) == IF Len(s) <= n THEN s ELSE SubSeq(s, Len(s) - n + 1, Len(s))

\* dict.get(k, default)
Get(data, k, default) == IF k \in DOMAIN data THEN data[k] ELSE default

\* Python's None, where a string may stand instead.
NoneVal == <<"None">>

\* ------------------------------------------------------------- inputs
EmptyMac == <<>>
MacLowerAB == <<"a", "b">>
MacUpperAB == <<"A", "B">>
MacMixedAB == <<"a", "B">>
MacLowerCD == <<"c", "d">>
MacMixedCD == <<"c", "D">>

\* The <mac_address> segment of /api/devices/<mac_address>: the route's string
\* converter matches one character or more, so the empty MAC never arrives.
UrlMacInputs == {MacLowerAB, MacMixedCD}

NameUnknown == <<"Unknown">>
NameKitchen == <<"Kitchen Sensor">>
NameTest == <<"Test Device">>
ManufOcto == <<"O", "c", "t", "o">>
ManufTest == <<"T", "e", "s", "t">>
Svc1800 == <<"1", "8", "0", "0">>
Svc1801 == <<"1", "8", "0", "1">>
SvcFFE0 == <<"0", "0", "0", "0", "f", "f", "e", "0">>

\* The keys an advertisement may carry its MAC under.
MacKeys == {"address", "mac", "mac_address"}

\* An MQTT payload that is not JSON.
NonJson == [json |-> FALSE, data |-> <<>>]

\* A JSON payload with the members `data`.
Json(data) == [json |-> TRUE, data |-> data]

\* The MQTT payloads: not JSON; JSON without a MAC; an empty MAC; the same MAC
\* in mixed and in upper case, with and without a name; another MAC in lower
\* case; and all three MAC keys at once.
AdvertInputs ==
    { NonJson,
      Json([name |-> NameUnknown]),
      Json([address |-> EmptyMac]),
      Json([address |-> MacMixedAB, name |-> NameUnknown, rssi |-> -55,
            manufacturer |-> ManufOcto, services |-> <<SvcFFE0>>]),
      Json([mac |-> MacUpperAB, name |-> <<>>, rssi |-> -50]),
      Json([mac_address |-> MacLowerCD]),
      Json([address |-> MacLowerCD, mac |-> MacLowerAB, mac_address |-> MacLowerAB]) }

\* request.get_json() of POST /api/devices/<mac>: no body (None) or {}, a JSON
\* array (a body that is JSON and no object; the model holds its items in a
\* record under the one key `array`), or a device.
NoBody == <<>>
ArrayBody == [array |-> <<1>>]
ManualBodies ==
    { NoBody,
      ArrayBody,
      [name |-> NameKitchen],
      [name |-> NameTest, rssi |-> -60, manufacturer |-> ManufTest,
       services |-> <<Svc1800, Svc1801>>] }

AutoDetect == "<auto_detect>"
NoHost == "None"
ConfiguredHost == "mqtt.local"
DetectedHost == "core-mosquitto"

\* Two configured ESP32 proxies, and /data/options.json: absent, or with a
\* broker host, both proxies and discovery on.
Proxy1 == [host |-> "esp32-1", port |-> 6053]
Proxy2 == [host |-> "esp32-2", port |-> 6053]
NoOptions == [exists |-> FALSE, host |-> "", bleProxies |-> <<>>, discovery |-> FALSE]
OptionsInputs ==
    { NoOptions,
      [exists |-> TRUE, host |-> ConfiguredHost, bleProxies |-> <<Proxy1, Proxy2>>,
       discovery |-> TRUE] }

\* ---------------------------------------------------------------- state
VARIABLES
    scanner,           \* the global `scanner` is not None
    devices,           \* scanner.devices: MAC key -> device record
    file,              \* /data/devices.json: absent, corrupt or a written JSON document
    scanning,          \* scanner.scanning
    mqtt_host,         \* scanner.mqtt_host
    mqtt_initialized,  \* scanner.mqtt_initialized
    mqtt_connected,    \* scanner.mqtt_connected
    mqtt_discovery,    \* scanner.mqtt_discovery
    bleProxies,        \* scanner.bleProxies
    broker_up,         \* environment: the broker accepts TCP connections
    now,               \* environment: datetime.now()
    disk,              \* environment: how a write of the device file ends
    resp,              \* what the last handler answered
    threads,           \* the request threads of the worker: where each is in its handler
    history,           \* the records that the threads' stores have written
    instances,         \* how many BLEScanner objects init_scanner has constructed
    remote_addr,       \* request.remote_addr of the client that is connected
    running,           \* scanner.running
    run_pc             \* where BLEScanner.run is: "none" while nothing called it

vars == <<scanner, devices, file, scanning, mqtt_host, mqtt_initialized,
          mqtt_connected, mqtt_discovery, bleProxies, broker_up, now, disk, resp,
          threads, history, instances, remote_addr, running, run_pc>>

\* BLEScanner.run's own state.
task == <<running, run_pc>>

\* The configuration, which no handler assigns after load_config.
config == <<mqtt_discovery, bleProxies>>

\* What only the steps of the request threads change.
thread_state == <<threads, history>>

EmptyRegistry == <<>>
\* /data/devices.json does not exist.
NoFile == [state |-> "absent", doc |-> <<>>]

\* BLEScanner.load_config: the fields it gives a new instance.
load_config(options) ==
    IF options.exists
    THEN [mqtt_host |-> IF options.host = "" THEN AutoDetect ELSE options.host,
          bleProxies |-> options.bleProxies,
          mqtt_discovery |-> options.discovery]
    ELSE [mqtt_host |-> AutoDetect, bleProxies |-> <<>>, mqtt_discovery |-> FALSE]

\* ------------------------------------------- device records (pure code)
\* len("BLE Device " + mac[-6:]) keeps the last six characters of the MAC.
NameSuffixLen == 6

\* any(sub in uuid for uuid in service_uuids)
AnyContains(sub, uuids) == \E i \in 1..Len(uuids) : Contains(sub, uuids[i])

\* BLEScanner._classify_device. The service UUIDs are upper-cased before the
\* tests; the tests of lines 342-363 repeat the condition of line 338 and are
\* never reached after it.
_classify_device(manufacturer, services) ==
    LET service_uuids == [i \in 1..Len(services) |-> ToUpper(services[i])]
    IN  IF AnyContains(Svc1800, service_uuids) /\ AnyContains(Svc1801, service_uuids)
        THEN <<"generic_ble">>
        ELSE IF AnyContains(SvcFFE0, service_uuids)
        THEN <<"richmat_gen2">>
        ELSE IF manufacturer # <<>> /\ manufacturer # <<"Unknown">>
        THEN <<"manufacturer_">> \o ReplaceSpaces(ToLower(manufacturer))
        ELSE <<"unknown">>

\* The MAC of an advertisement: 'address', else 'mac', else 'mac_address'.
HasMac(data) == \E k \in MacKeys : k \in DOMAIN data

RawMac(data) ==
    IF "address" \in DOMAIN data THEN data["address"]
    ELSE IF "mac" \in DOMAIN data THEN data["mac"]
    ELSE data["mac_address"]

\* BLEScanner._extract_device_info, for a payload that has one of the MAC keys.
DeviceInfo(data, t) ==
    LET mac_address == ToUpper(RawMac(data))
        given == Get(data, "name", <<"Unknown Device">>)
        name == IF given = <<>>
                THEN <<"BLE Device ">> \o Suffix(mac_address, NameSuffixLen)
                ELSE given
        manufacturer == Get(data, "manufacturer", <<"Unknown">>)
        services == Get(data, "services", <<>>)
    IN  [mac_address |-> mac_address,
         name |-> name,
         rssi |-> Get(data, "rssi", 0),
         last_seen |-> t,
         manufacturer |-> manufacturer,
         services |-> services,
         device_type |-> _classify_device(manufacturer, services),
         metadata |-> [manufacturer_data |-> Get(data, "manufacturer_data", <<>>),
                       service_data |-> Get(data, "service_data", <<>>),
                       advertisement_type |-> Get(data, "advertisement_type", <<"unknown">>),
                       connectable |-> Get(data, "connectable", TRUE),
                       tx_power |-> Get(data, "tx_power", NoneVal),
                       flags |-> Get(data, "flags", <<>>)],
         source |-> <<"mqtt">>]

\* _extract_device_info taking a payload without a MAC key for the empty MAC.
_extract_device_info_no_check(data, t) ==
    IF HasMac(data)
    THEN [ok |-> TRUE, info |-> DeviceInfo(data, t)]
    ELSE [ok |-> TRUE, info |-> DeviceInfo([mac_address |-> EmptyMac] @@ data, t)]

\* BLEScanner._extract_device_info: None (ok = FALSE) without a MAC key.
_extract_device_info(data, t) ==
    IF HasMac(data)
    THEN [ok |-> TRUE, info |-> DeviceInfo(data, t)]
    ELSE [ok |-> FALSE, info |-> <<>>]

\* The record of add_device with the default name, whatever the body's.
ManualDevice_default_name(mac_address, data, t) ==
    [mac_address |-> ToUpper(mac_address),
     name |-> <<"Unknown Device">>,
     rssi |-> Get(data, "rssi", 0),
     last_seen |-> t,
     manufacturer |-> Get(data, "manufacturer", <<"Unknown">>),
     services |-> Get(data, "services", <<>>),
     added_manually |-> TRUE]

\* The record add_device builds from the URL's MAC and the request body.
ManualDevice(mac_address, data, t) ==
    [mac_address |-> ToUpper(mac_address),
     name |-> Get(data, "name", <<"Unknown Device">>),
     rssi |-> Get(data, "rssi", 0),
     last_seen |-> t,
     manufacturer |-> Get(data, "manufacturer", <<"Unknown">>),
     services |-> Get(data, "services", <<>>),
     added_manually |-> TRUE]

\* dict[key] = value
Put(devs, key, rec) == (key :> rec) @@ devs

\* del dict[key]
Del(devs, key) == [k \in (DOMAIN devs) \ {key} |-> devs[k]]

\* ---------------------------------------------------------------- JSON
\* A JSON value is [t |-> its kind, v |-> its content]; an object's content is
\* the sequence of its <<key, value>> members, in the order they are written.
JStr(s) == [t |-> "string", v |-> s]
JNum(n) == [t |-> "number", v |-> n]
JBool(b) == [t |-> IF b THEN "true" ELSE "false", v |-> <<>>]
JNull == [t |-> "null", v |-> <<>>]
JArr(a) == [t |-> "array", v |-> a]
JObj(members) == [t |-> "object", v |-> members]

\* The keys of the records, in the order the code's dict literals list them.
FieldOrder ==
    <<"mac_address", "name", "rssi", "last_seen", "manufacturer", "services",
      "device_type", "metadata", "source", "added_manually",
      "manufacturer_data", "service_data", "advertisement_type", "connectable",
      "tx_power", "flags">>

RECURSIVE EncodeValue(_, _)
\* json.dump of the dict d: its members in insertion order.
EncodeDict(d) ==
    LET present == SelectSeq(FieldOrder, LAMBDA k : k \in DOMAIN d)
    IN  [i \in 1..Len(present) |-> <<present[i], EncodeValue(present[i], d[present[i]])>>]

\* json.dump of the value v held under key k (the key tells its Python type).
EncodeValue(k, v) ==
    CASE k \in {"rssi", "last_seen"} -> JNum(v)
      [] k \in {"added_manually", "connectable"} -> JBool(v)
      [] k = "tx_power" -> IF v = NoneVal THEN JNull ELSE JNum(v)
      [] k \in {"services", "flags"} -> JArr([i \in 1..Len(v) |-> JStr(v[i])])
      [] k \in {"metadata", "manufacturer_data", "service_data"} -> JObj(EncodeDict(v))
      [] OTHER -> JStr(v)

RECURSIVE EncodeRegistry(_, _)
\* The members of the registry object, one per key of `keys`.
EncodeRegistry(devs, keys) ==
    IF keys = {} THEN <<>>
    ELSE LET k == CHOOSE x \in keys : TRUE
         IN  <<<<k, JObj(EncodeDict(devs[k]))>>>> \o EncodeRegistry(devs, keys \ {k})

\* json.dump(self.devices, f)
json_dump(devs) == EncodeRegistry(devs, DOMAIN devs)

RECURSIVE DecodeValue(_)
\* A JSON object read back as a dict: a repeated key keeps its last value.
DecodeObject(members) ==
    LET keys == {members[i][1] : i \in DOMAIN members}
        last(k) == CHOOSE i \in DOMAIN members :
                      /\ members[i][1] = k
                      /\ \A j \in DOMAIN members : members[j][1] = k => j <= i
    IN  [k \in keys |-> DecodeValue(members[last(k)][2])]

\* json.load reading null back as the empty string.
DecodeValue_null_as_empty(j) ==
    CASE j.t = "string" -> j.v
      [] j.t = "number" -> j.v
      [] j.t = "true" -> TRUE
      [] j.t = "false" -> FALSE
      [] j.t = "null" -> <<>>
      [] j.t = "array" -> [i \in 1..Len(j.v) |-> DecodeValue(j.v[i])]
      [] j.t = "object" -> DecodeObject(j.v)

\* json.load of one value.
DecodeValue(j) ==
    CASE j.t = "string" -> j.v
      [] j.t = "number" -> j.v
      [] j.t = "true" -> TRUE
      [] j.t = "false" -> FALSE
      [] j.t = "null" -> NoneVal
      [] j.t = "array" -> [i \in 1..Len(j.v) |-> DecodeValue(j.v[i])]
      [] j.t = "object" -> DecodeObject(j.v)

\* json.load(f)
json_load(doc) == DecodeObject(doc)

\* BLEScanner.save_devices: open(..., 'w') and json.dump, any exception logged.
\* outcome "ok": written; "open_fails": the file is left as it was;
\* "write_fails": the file was truncated and the dump did not complete.
\* Which of them happens is the state of the disk under /data.
SaveOutcomes == {"ok", "open_fails", "write_fails"}

save_devices(devs, f, outcome) ==
    CASE outcome = "ok" -> [state |-> "written", doc |-> json_dump(devs)]
      [] outcome = "open_fails" -> f
      [] outcome = "write_fails" -> [state |-> "corrupt", doc |-> <<>>]

\* load_devices emptying the registry when the file cannot be read.
load_devices_resets(devs, f) ==
    IF f.state = "written" THEN json_load(f.doc) ELSE EmptyRegistry

\* BLEScanner.load_devices: the registry after loading file f into devs.
load_devices(devs, f) ==
    IF f.state = "written" THEN json_load(f.doc) ELSE devs

\* ---------------------------------------------------------------- MQTT
\* BLEScanner.auto_detect_mqtt_host: the first candidate that accepts a
\* connection, else None.
auto_detect_mqtt_host(up) == IF up THEN DetectedHost ELSE NoHost

\* BLEScanner.setup_mqtt: [host, initialized] afterwards.
setup_mqtt(host, initialized, up) ==
    IF initialized THEN [host |-> host, initialized |-> TRUE]
    ELSE [host |-> IF host = AutoDetect \/ host = "" THEN auto_detect_mqtt_host(up) ELSE host,
          initialized |-> TRUE]

\* start_mqtt_connection setting the flag without looking at connect_ex.
start_mqtt_connection_assumes_up(host, initialized, connected, up) ==
    LET s == setup_mqtt(host, initialized, up)
    IN  [host |-> s.host,
         initialized |-> s.initialized,
         connected |-> IF s.host # NoHost /\ s.host # "" /\ ~connected
                       THEN TRUE
                       ELSE connected]

\* BLEScanner.start_mqtt_connection: [host, initialized, connected] afterwards.
\* One connect_ex to the broker; the flag is only ever set, never cleared.
start_mqtt_connection(host, initialized, connected, up) ==
    LET s == setup_mqtt(host, initialized, up)
    IN  [host |-> s.host,
         initialized |-> s.initialized,
         connected |-> IF s.host # NoHost /\ s.host # "" /\ ~connected
                       THEN up
                       ELSE connected]

\* ------------------------------------------------------------- actions
\* What a handler answered: the operation, the MAC it was given, the HTTP
\* status (0 for an advertisement, which answers nobody), the 'status' of the
\* answer, and how its save_devices call ended ("none": it made no such call).
\* With it, notes on what the handler did: whether the record it stored took
\* the place of one, what became of its publish_mqtt call and, when the
\* message was published, the topic, as its levels between the '/'.
Response(op, mac, code, status, saved) ==
    [op |-> op, mac |-> mac, code |-> code, status |-> status, saved |-> saved,
     replaced |-> FALSE, published |-> "none", topic |-> <<>>]

\* f"ble_scanner/discovered/{mac_address}"
discovery_topic(mac_address) == <<"ble_scanner", "discovered", mac_address>>

\* BLEScanner.publish_mqtt: the message is logged when connected and skipped
\* otherwise; nothing is sent and nothing is raised.
publish_mqtt(connected) == IF connected THEN "logged" ELSE "skipped"

\* A request body on which data.get(...) works: a JSON object.
IsObject(data) == "array" \notin DOMAIN data

\* init_scanner, as every handler calls it when scanner is None: BLEScanner()
\* (whose fields Init already holds) and setup_mqtt.
init_scanner ==
    /\ scanner' = TRUE
    /\ instances' = IF scanner THEN instances ELSE instances + 1
    /\ mqtt_host' = setup_mqtt(mqtt_host, mqtt_initialized, broker_up).host
    /\ mqtt_initialized' = TRUE

\* _process_ble_advertisement keeping the rssi of the record already there.
_process_ble_advertisement_keeps_rssi(adv) ==
    /\ scanner
    /\ LET r == IF adv.json THEN _extract_device_info(adv.data, now)
                ELSE [ok |-> FALSE, info |-> <<>>]
           k == r.info.mac_address
       IN  IF r.ok
           THEN /\ devices' = Put(devices, k,
                                  IF k \in DOMAIN devices
                                  THEN [r.info EXCEPT !.rssi = devices[k].rssi]
                                  ELSE r.info)
                /\ file' = save_devices(devices', file, disk)
                /\ resp' = [Response("advert", <<>>, 0, "stored", disk) EXCEPT
                               !.replaced = k \in DOMAIN devices]
           ELSE /\ resp' = Response("advert", <<>>, 0, "dropped", "none")
                /\ UNCHANGED <<devices, file>>
    /\ UNCHANGED <<scanner, instances, scanning, mqtt_host, mqtt_initialized, mqtt_connected,
                   broker_up, now, disk, config, thread_state, remote_addr, task>>

\* _process_ble_advertisement undoing the store when the publish is skipped.
_process_ble_advertisement_rolls_back(adv) ==
    /\ scanner
    /\ LET r == IF adv.json THEN _extract_device_info(adv.data, now)
                ELSE [ok |-> FALSE, info |-> <<>>]
       IN  IF r.ok
           THEN /\ devices' = IF mqtt_discovery /\ ~mqtt_connected
                               THEN devices
                               ELSE Put(devices, r.info.mac_address, r.info)
                /\ file' = save_devices(devices', file, disk)
                /\ resp' = [Response("advert", <<>>, 0, "stored", disk) EXCEPT
                               !.replaced = r.info.mac_address \in DOMAIN devices,
                               !.published = IF mqtt_discovery
                                             THEN publish_mqtt(mqtt_connected)
                                             ELSE "none"]
           ELSE /\ resp' = Response("advert", <<>>, 0, "dropped", "none")
                /\ UNCHANGED <<devices, file>>
    /\ UNCHANGED <<scanner, instances, scanning, mqtt_host, mqtt_initialized, mqtt_connected,
                   broker_up, now, disk, config, thread_state, remote_addr, task>>

\* _process_ble_advertisement publishing whether or not discovery is enabled.
_process_ble_advertisement_always_publishes(adv) ==
    /\ scanner
    /\ LET r == IF adv.json THEN _extract_device_info(adv.data, now)
                ELSE [ok |-> FALSE, info |-> <<>>]
       IN  IF r.ok
           THEN /\ devices' = Put(devices, r.info.mac_address, r.info)
                /\ file' = save_devices(devices', file, disk)
                /\ resp' = [Response("advert", <<>>, 0, "stored", disk) EXCEPT
                               !.replaced = r.info.mac_address \in DOMAIN devices,
                               !.published = publish_mqtt(mqtt_connected),
                               !.topic = IF mqtt_connected
                                         THEN discovery_topic(r.info.mac_address)
                                         ELSE <<>>]
           ELSE /\ resp' = Response("advert", <<>>, 0, "dropped", "none")
                /\ UNCHANGED <<devices, file>>
    /\ UNCHANGED <<scanner, instances, scanning, mqtt_host, mqtt_initialized, mqtt_connected,
                   broker_up, now, disk, config, thread_state, remote_addr, task>>

\* BLEScanner._process_ble_advertisement(topic, payload) on the scanner.
_process_ble_advertisement(adv) ==
    /\ scanner
    /\ LET r == IF adv.json THEN _extract_device_info(adv.data, now)
                ELSE [ok |-> FALSE, info |-> <<>>]
       IN  IF r.ok
           THEN /\ devices' = Put(devices, r.info.mac_address, r.info)
                /\ file' = save_devices(devices', file, disk)
                /\ resp' = [Response("advert", <<>>, 0, "stored", disk) EXCEPT
                               !.replaced = r.info.mac_address \in DOMAIN devices,
                               !.published = IF mqtt_discovery
                                             THEN publish_mqtt(mqtt_connected)
                                             ELSE "none",
                               !.topic = IF mqtt_discovery /\ mqtt_connected
                                         THEN discovery_topic(r.info.mac_address)
                                         ELSE <<>>]
           ELSE /\ resp' = Response("advert", <<>>, 0, "dropped", "none")
                /\ UNCHANGED <<devices, file>>
    /\ UNCHANGED <<scanner, instances, scanning, mqtt_host, mqtt_initialized, mqtt_connected,
                   broker_up, now, disk, config, thread_state, remote_addr, task>>

\* add_device with the record stored under the MAC as given.
add_device_raw_key(mac_address, data) ==
    /\ init_scanner
    /\ IF data = NoBody
       THEN /\ resp' = Response("add", mac_address, 400, "error", "none")
            /\ UNCHANGED <<devices, file>>
       ELSE IF ~IsObject(data)
       THEN /\ resp' = Response("add", mac_address, 500, "error", "none")
            /\ UNCHANGED <<devices, file>>
       ELSE /\ devices' = Put(devices, mac_address, ManualDevice(mac_address, data, now))
            /\ file' = save_devices(devices', file, disk)
            /\ resp' = Response("add", mac_address, 200, "ok", disk)
    /\ UNCHANGED <<scanning, mqtt_connected, broker_up, now, disk, config, thread_state, remote_addr, task>>

\* POST /api/devices/<mac_address>. On a body that is not an object data.get
\* raises AttributeError, which handle_exception answers with 500.
add_device(mac_address, data) ==
    /\ init_scanner
    /\ IF data = NoBody
       THEN /\ resp' = Response("add", mac_address, 400, "error", "none")
            /\ UNCHANGED <<devices, file>>
       ELSE IF ~IsObject(data)
       THEN /\ resp' = Response("add", mac_address, 500, "error", "none")
            /\ UNCHANGED <<devices, file>>
       ELSE /\ devices' = Put(devices, ToUpper(mac_address),
                              ManualDevice(mac_address, data, now))
            /\ file' = save_devices(devices', file, disk)
            /\ resp' = [Response("add", mac_address, 200, "ok", disk) EXCEPT
                           !.replaced = ToUpper(mac_address) \in DOMAIN devices]
    /\ UNCHANGED <<scanning, mqtt_connected, broker_up, now, disk, config, thread_state, remote_addr, task>>

\* The HTTP status DELETE /api/devices/<mac_address> answers on registry devs.
remove_status(devs, mac_address) ==
    IF ToUpper(mac_address) \in DOMAIN devs THEN 200 ELSE 404

\* remove_device with the MAC looked up as given, not upper-cased.
remove_device_raw_key(mac_address) ==
    /\ init_scanner
    /\ IF mac_address \in DOMAIN devices
       THEN /\ devices' = Del(devices, mac_address)
            /\ file' = save_devices(devices', file, disk)
            /\ resp' = Response("remove", mac_address, 200, "removed", disk)
       ELSE /\ resp' = Response("remove", mac_address, 404, "error", "none")
            /\ UNCHANGED <<devices, file>>
    /\ UNCHANGED <<scanning, mqtt_connected, broker_up, now, disk, config, thread_state, remote_addr, task>>

\* remove_device saving the registry also when the MAC is unknown.
remove_device_always_saves(mac_address) ==
    /\ init_scanner
    /\ devices' = Del(devices, ToUpper(mac_address))
    /\ file' = save_devices(devices', file, disk)
    /\ resp' = IF ToUpper(mac_address) \in DOMAIN devices
               THEN Response("remove", mac_address, 200, "removed", disk)
               ELSE Response("remove", mac_address, 404, "error", "none")
    /\ UNCHANGED <<scanning, mqtt_connected, broker_up, now, disk, config, thread_state, remote_addr, task>>

\* DELETE /api/devices/<mac_address>
remove_device(mac_address) ==
    /\ init_scanner
    /\ IF remove_status(devices, mac_address) = 200
       THEN /\ devices' = Del(devices, ToUpper(mac_address))
            /\ file' = save_devices(devices', file, disk)
            /\ resp' = Response("remove", mac_address, 200, "removed", disk)
       ELSE /\ resp' = Response("remove", mac_address, 404, "error", "none")
            /\ UNCHANGED <<devices, file>>
    /\ UNCHANGED <<scanning, mqtt_connected, broker_up, now, disk, config, thread_state, remote_addr, task>>

\* clear_devices that saves without emptying the registry.
clear_devices_keeps ==
    /\ devices' = devices
    /\ file' = save_devices(devices', file, disk)

\* BLEScanner.clear_devices: the registry and the file it leaves.
clear_devices ==
    /\ devices' = EmptyRegistry
    /\ file' = save_devices(devices', file, disk)

\* POST /api/devices/clear
api_clear_devices ==
    /\ init_scanner
    /\ clear_devices
    /\ resp' = Response("clear", <<>>, 200, "cleared", disk)
    /\ UNCHANGED <<scanning, mqtt_connected, broker_up, now, disk, config, thread_state, remote_addr, task>>

\* start_scan refusing to start when the broker cannot be reached.
api_start_scan_needs_broker ==
    /\ scanner' = TRUE
    /\ instances' = IF scanner THEN instances ELSE instances + 1
    /\ IF ~scanning
       THEN LET c == start_mqtt_connection(mqtt_host, mqtt_initialized,
                                           mqtt_connected, broker_up)
            IN  /\ scanning' = c.connected
                /\ mqtt_host' = c.host
                /\ mqtt_initialized' = c.initialized
                /\ mqtt_connected' = c.connected
                /\ resp' = IF c.connected
                           THEN Response("start", <<>>, 200, "started", "none")
                           ELSE Response("start", <<>>, 500, "error", "none")
       ELSE /\ mqtt_host' = setup_mqtt(mqtt_host, mqtt_initialized, broker_up).host
            /\ mqtt_initialized' = TRUE
            /\ resp' = Response("start", <<>>, 200, "already_running", "none")
            /\ UNCHANGED <<scanning, mqtt_connected>>
    /\ UNCHANGED <<devices, file, broker_up, now, disk, config, thread_state,
                   remote_addr, task>>

\* POST /api/scan/start: BLEScanner.start_scan
api_start_scan ==
    /\ scanner' = TRUE
    /\ instances' = IF scanner THEN instances ELSE instances + 1
    /\ IF ~scanning
       THEN LET c == start_mqtt_connection(mqtt_host, mqtt_initialized,
                                           mqtt_connected, broker_up)
            IN  /\ scanning' = TRUE
                /\ mqtt_host' = c.host
                /\ mqtt_initialized' = c.initialized
                /\ mqtt_connected' = c.connected
                /\ resp' = Response("start", <<>>, 200, "started", "none")
       ELSE /\ mqtt_host' = setup_mqtt(mqtt_host, mqtt_initialized, broker_up).host
            /\ mqtt_initialized' = TRUE
            /\ resp' = Response("start", <<>>, 200, "already_running", "none")
            /\ UNCHANGED <<scanning, mqtt_connected>>
    /\ UNCHANGED <<devices, file, broker_up, now, disk, config, thread_state,
                   remote_addr, task>>

\* POST /api/scan/stop: BLEScanner.stop_scan
api_stop_scan ==
    /\ init_scanner
    /\ IF scanning
       THEN /\ scanning' = FALSE
            /\ resp' = Response("stop", <<>>, 200, "stopped", "none")
       ELSE /\ resp' = Response("stop", <<>>, 200, "not_running", "none")
            /\ UNCHANGED scanning
    /\ UNCHANGED <<devices, file, mqtt_connected, broker_up, now, disk, config, thread_state, remote_addr, task>>

\* POST /api/test/mqtt
test_mqtt ==
    LET c == start_mqtt_connection(mqtt_host, mqtt_initialized, mqtt_connected, broker_up)
    IN  /\ scanner' = TRUE
        /\ instances' = IF scanner THEN instances ELSE instances + 1
        /\ mqtt_host' = c.host
        /\ mqtt_initialized' = c.initialized
        /\ mqtt_connected' = c.connected
        /\ resp' = IF c.connected
                   THEN Response("test_mqtt", <<>>, 200, "success", "none")
                   ELSE Response("test_mqtt", <<>>, 500, "error", "none")
        /\ UNCHANGED <<devices, file, scanning, broker_up, now, disk, config,
                       thread_state, remote_addr, task>>

\* GET /api/status: the answer is get_status of the state it leaves.
api_status ==
    /\ init_scanner
    /\ resp' = Response("status", <<>>, 200, "ok", "none")
    /\ UNCHANGED <<devices, file, scanning, mqtt_connected, broker_up, now, disk,
                   config, thread_state, remote_addr, task>>

\* GET /api/health: the scanner is created if there is none.
api_health ==
    /\ init_scanner
    /\ resp' = Response("health", <<>>, 200, "healthy", "none")
    /\ UNCHANGED <<devices, file, scanning, mqtt_connected, broker_up, now, disk,
                   config, thread_state, remote_addr, task>>

\* ---------------------------------------------------------------- ingress
\* request.remote_addr: the ingress proxy, the loopback address, none, and an
\* address of the local network.
IngressProxy == "172.30.32.2"
Loopback == "127.0.0.1"
NoRemoteAddr == ""
ForeignAddr == "192.168.1.50"
RemoteAddrs == {IngressProxy, Loopback, NoRemoteAddr, ForeignAddr}

allowed_ips == {"172.30.32.2", "127.0.0.1", "localhost"}

\* check_ingress letting the status endpoint through as well.
check_ingress_exempts_status(endpoint, addr) ==
    IF endpoint \in {"api_health", "api_status"} THEN 0
    ELSE IF addr # NoRemoteAddr /\ addr \notin allowed_ips THEN 403
    ELSE 0

\* check_ingress for a request to `endpoint` from `addr`: 403, or 0 for the
\* None that lets the request go on to its view.
check_ingress(endpoint, addr) ==
    IF endpoint = "api_health" THEN 0
    ELSE IF addr # NoRemoteAddr /\ addr \notin allowed_ips THEN 403
    ELSE 0

\* A request to `endpoint` from the connected client: check_ingress runs
\* before the view, and its 403 is the answer, the view not being called.
before_request(endpoint, view) ==
    IF check_ingress(endpoint, remote_addr) = 403
    THEN /\ resp' = Response("denied", <<>>, 403, "Access denied", "none")
         /\ UNCHANGED <<scanner, instances, devices, file, scanning, mqtt_host,
                        mqtt_initialized, mqtt_connected, broker_up, now, disk,
                        config, thread_state, remote_addr, task>>
    ELSE view

\* Environment: another client connects.
accept ==
    /\ \E addr \in RemoteAddrs \ {remote_addr} : remote_addr' = addr
    /\ UNCHANGED <<scanner, instances, devices, file, scanning, mqtt_host,
                   mqtt_initialized, mqtt_connected, broker_up, now, disk, config,
                   thread_state, resp, task>>

\* ---------------------------------------------------------------- run
\* BLEScanner.run is called on the scanner.
run_start ==
    /\ scanner
    /\ run_pc = "none"
    /\ run_pc' = "load"
    /\ UNCHANGED <<scanner, instances, devices, file, scanning, mqtt_host,
                   mqtt_initialized, mqtt_connected, broker_up, now, disk, config,
                   thread_state, resp, remote_addr, running>>

\* run: self.load_devices(), before the try; the loop is entered. The loop
\* itself changes nothing while self.running is true, and only the except
\* clause of run assigns self.running.
run_load_devices ==
    /\ run_pc = "load"
    /\ devices' = load_devices(devices, file)
    /\ run_pc' = "loop"
    /\ UNCHANGED <<scanner, instances, file, scanning, mqtt_host,
                   mqtt_initialized, mqtt_connected, broker_up, now, disk, config,
                   thread_state, resp, remote_addr, running>>

\* KeyboardInterrupt reaches the thread that is in run: inside the try it is
\* caught, self.running = False and run returns; before the try nothing
\* catches it (load_devices catches Exception only) and it leaves run.
KeyboardInterrupt ==
    /\ run_pc \in {"load", "loop"}
    /\ IF run_pc = "loop"
       THEN running' = FALSE /\ run_pc' = "returned"
       ELSE running' = running /\ run_pc' = "raised"
    /\ UNCHANGED <<scanner, instances, devices, file, scanning, mqtt_host,
                   mqtt_initialized, mqtt_connected, broker_up, now, disk, config,
                   thread_state, resp, remote_addr>>

\* Environment: time passes.
Tick ==
    /\ now < MaxTime
    /\ now' = now + 1
    /\ UNCHANGED <<scanner, instances, devices, file, scanning, mqtt_host, mqtt_initialized,
                   mqtt_connected, broker_up, disk, config, thread_state, resp, remote_addr, task>>

\* Environment: the broker starts accepting connections.
BrokerUp ==
    /\ ~broker_up
    /\ broker_up' = TRUE
    /\ UNCHANGED <<scanner, instances, devices, file, scanning, mqtt_host, mqtt_initialized,
                   mqtt_connected, now, disk, config, thread_state, resp, remote_addr, task>>

\* Environment: the broker stops accepting connections.
BrokerDown ==
    /\ broker_up
    /\ broker_up' = FALSE
    /\ UNCHANGED <<scanner, instances, devices, file, scanning, mqtt_host, mqtt_initialized,
                   mqtt_connected, now, disk, config, thread_state, resp, remote_addr, task>>

\* ------------------------------------------------------ request threads
\* The handlers again, one interpreter step at a time, as the threads of the
\* gthread worker run them: a thread may be switched out between any two
\* statements, while one statement on a dict (a subscript store, a rebinding of
\* self.devices, json serialising a dict whose keys and values are plain JSON)
\* runs under the interpreter lock without a switch.
Threads == 1..NumThreads

\* A reference to the dict that is self.devices now.
Live == [live |-> TRUE, dict |-> <<>>]

\* A reference to a dict that self.devices was, with the content `devs`.
Stale(devs) == [live |-> FALSE, dict |-> devs]

\* A thread that is handling no request.
Idle == [pc |-> "idle", key |-> <<>>, rec |-> <<>>, ref |-> Live, code |-> 0,
         out |-> <<>>, buf |-> <<>>]

\* What the threads' writers store: a manual add and an advertisement of the
\* same MAC, which differ in every field but the MAC.
ThreadMacs == {MacLowerAB}
ThreadBodies == {[name |-> NameKitchen]}
ThreadAdverts == {Json([mac |-> MacUpperAB, name |-> <<>>, rssi |-> -50])}

\* What the steps of a thread leave alone.
ThreadFrame ==
    UNCHANGED <<scanning, mqtt_connected, broker_up, now, disk, config, resp,
                remote_addr, task>>

\* add_device up to `device = {...}`: the record is built, not yet stored.
add_device_build(t, mac_address, data) ==
    /\ threads[t].pc = "idle"
    /\ init_scanner
    /\ threads' = [threads EXCEPT ![t] =
                     [Idle EXCEPT !.pc = "store", !.key = ToUpper(mac_address),
                                  !.rec = ManualDevice(mac_address, data, now)]]
    /\ UNCHANGED <<devices, file, history>>
    /\ ThreadFrame

\* _process_ble_advertisement up to `device_info = ...` for a payload with a
\* MAC: the record is built, not yet stored.
advertisement_build(t, adv) ==
    /\ threads[t].pc = "idle"
    /\ scanner
    /\ threads' = [threads EXCEPT ![t] =
                     [Idle EXCEPT !.pc = "store", !.key = ToUpper(RawMac(adv.data)),
                                  !.rec = DeviceInfo(adv.data, now)]]
    /\ UNCHANGED <<scanner, instances, mqtt_host, mqtt_initialized, devices, file, history>>
    /\ ThreadFrame

\* The store with the fields written into the record that is already there,
\* one at a time, rssi first.
devices_store_in_place(t) ==
    /\ threads[t].pc = "store"
    /\ LET k == threads[t].key
       IN  devices' = IF k \in DOMAIN devices
                      THEN [devices EXCEPT ![k].rssi = threads[t].rec.rssi]
                      ELSE Put(devices, k, threads[t].rec)
    /\ history' = history \cup {threads[t].rec}
    /\ threads' = [threads EXCEPT ![t].pc = "save"]
    /\ UNCHANGED <<scanner, instances, mqtt_host, mqtt_initialized, file>>
    /\ ThreadFrame

\* `self.devices[mac_address] = device_info` / `scanner.devices[...] = device`:
\* one subscript store of the finished record.
devices_store(t) ==
    /\ threads[t].pc = "store"
    /\ devices' = Put(devices, threads[t].key, threads[t].rec)
    /\ history' = history \cup {threads[t].rec}
    /\ threads' = [threads EXCEPT ![t].pc = "save"]
    /\ UNCHANGED <<scanner, instances, mqtt_host, mqtt_initialized, file>>
    /\ ThreadFrame

\* save_devices at the end of a writer, of the registry as it is by then; the
\* writer then answers.
devices_save(t) ==
    /\ threads[t].pc = "save"
    /\ file' = save_devices(devices, file, disk)
    /\ threads' = [threads EXCEPT ![t] = Idle]
    /\ UNCHANGED <<scanner, instances, mqtt_host, mqtt_initialized, devices, history>>
    /\ ThreadFrame

\* The file after open(..., 'w'): cut to no bytes, which is no JSON document.
Truncated == [state |-> "corrupt", doc |-> <<>>]

\* The length of a document's text, by its members: an object of more
\* records is the longer text, the records written here being of one size.
TextLen(doc) == Len(doc)

\* The file after a writer's buffer `buf` is flushed at offset 0 into a file
\* that holds f: the bytes of f past the end of buf stay where they are, so
\* a longer document under a shorter one leaves text that is no document.
flush(buf, f) ==
    IF f.state = "written" /\ TextLen(f.doc) > TextLen(buf)
    THEN [state |-> "corrupt", doc |-> <<>>]
    ELSE [state |-> "written", doc |-> buf]

\* save_devices, open('/data/devices.json', 'w'): the file is truncated; an
\* open that fails is logged and the writer answers.
save_open(t) ==
    /\ threads[t].pc = "save"
    /\ IF disk = "open_fails"
       THEN /\ threads' = [threads EXCEPT ![t] = Idle]
            /\ UNCHANGED file
       ELSE /\ threads' = [threads EXCEPT ![t].pc = "dump"]
            /\ file' = Truncated
    /\ UNCHANGED <<scanner, instances, mqtt_host, mqtt_initialized, devices, history>>
    /\ ThreadFrame

\* save_devices, json.dump(self.devices, f): the registry as it is now goes
\* into the buffer of the thread's file object; a dump that fails is logged,
\* the file stays cut, and the writer answers.
save_dump(t) ==
    /\ threads[t].pc = "dump"
    /\ IF disk = "write_fails"
       THEN /\ threads' = [threads EXCEPT ![t] = Idle]
            /\ file' = Truncated
       ELSE /\ threads' = [threads EXCEPT ![t].pc = "close",
                                         ![t].buf = json_dump(devices)]
            /\ UNCHANGED file
    /\ UNCHANGED <<scanner, instances, mqtt_host, mqtt_initialized, devices, history>>
    /\ ThreadFrame

\* save_devices, the end of the with block: the buffer is flushed into the
\* file from offset 0 and the file is closed; the writer then answers.
save_close(t) ==
    /\ threads[t].pc = "close"
    /\ file' = flush(threads[t].buf, file)
    /\ threads' = [threads EXCEPT ![t] = Idle]
    /\ UNCHANGED <<scanner, instances, mqtt_host, mqtt_initialized, devices, history>>
    /\ ThreadFrame

\* clear_devices up to `self.devices = {}`: the name is bound to a new dict,
\* and the threads that hold the old one keep it.
clear_devices_rebind(t) ==
    /\ threads[t].pc = "idle"
    /\ init_scanner
    /\ devices' = EmptyRegistry
    /\ threads' = [u \in Threads |->
                     IF u = t THEN [Idle EXCEPT !.pc = "save"]
                     ELSE IF threads[u].pc = "serialise" /\ threads[u].ref.live
                     THEN [threads[u] EXCEPT !.ref = Stale(devices)]
                     ELSE threads[u]]
    /\ UNCHANGED <<file, history>>
    /\ ThreadFrame

\* api_devices up to `scanner.get_devices()`: the thread holds the dict.
api_devices_get(t) ==
    /\ threads[t].pc = "idle"
    /\ init_scanner
    /\ threads' = [threads EXCEPT ![t] = [Idle EXCEPT !.pc = "serialise"]]
    /\ UNCHANGED <<devices, file, history>>
    /\ ThreadFrame

\* jsonify of the dict the thread holds: its items as they are at this moment.
api_devices_serialise(t) ==
    /\ threads[t].pc = "serialise"
    /\ threads' = [threads EXCEPT ![t].pc = "done", ![t].code = 200,
                                  ![t].out = IF threads[t].ref.live THEN devices
                                             ELSE threads[t].ref.dict]
    /\ UNCHANGED <<scanner, instances, mqtt_host, mqtt_initialized, devices, file, history>>
    /\ ThreadFrame

\* The answer of api_devices is sent; the thread is free again.
api_devices_return(t) ==
    /\ threads[t].pc = "done"
    /\ threads' = [threads EXCEPT ![t] = Idle]
    /\ UNCHANGED <<scanner, instances, mqtt_host, mqtt_initialized, devices, file, history>>
    /\ ThreadFrame

\* ---------------------------------------------------------------- process
\* The options.json the process reads: the one whose load gave the
\* configuration the state holds.
Options ==
    CHOOSE options \in OptionsInputs :
        /\ load_config(options).mqtt_discovery = mqtt_discovery
        /\ load_config(options).bleProxies = bleProxies

\* The worker process ends and a new one starts: the module is imported
\* again, scanner is None, and the device file is what the old process left.
restart ==
    /\ scanner
    /\ \A t \in Threads : threads[t].pc = "idle"
    /\ scanner' = FALSE
    /\ instances' = 0
    /\ devices' = EmptyRegistry
    /\ scanning' = FALSE
    /\ mqtt_host' = load_config(Options).mqtt_host
    /\ mqtt_initialized' = FALSE
    /\ mqtt_connected' = FALSE
    /\ running' = TRUE
    /\ run_pc' = "none"
    /\ resp' = Response("none", <<>>, 0, "none", "none")
    /\ UNCHANGED <<file, broker_up, now, disk, config, thread_state, remote_addr>>

\* A handler on thread t evaluates `scanner is None`, finds it true and goes
\* into init_scanner, whose own test of scanner follows at once.
init_scanner_check(t) ==
    /\ threads[t].pc = "idle"
    /\ ~scanner
    /\ threads' = [threads EXCEPT ![t].pc = "construct"]
    /\ UNCHANGED <<scanner, instances, devices, file, scanning, mqtt_host,
                   mqtt_initialized, mqtt_connected, broker_up, now, disk, config,
                   history, resp, remote_addr, task>>

\* init_scanner on thread t after its test: `scanner = BLEScanner()` binds the
\* global to a new instance, with the fields __init__ and load_config give
\* it, and scanner.setup_mqtt() follows.
init_scanner_assign(t) ==
    /\ threads[t].pc = "construct"
    /\ scanner' = TRUE
    /\ instances' = instances + 1
    /\ devices' = EmptyRegistry
    /\ scanning' = FALSE
    /\ mqtt_host' = setup_mqtt(load_config(Options).mqtt_host, FALSE, broker_up).host
    /\ mqtt_initialized' = TRUE
    /\ mqtt_connected' = FALSE
    /\ running' = TRUE
    /\ threads' = [threads EXCEPT ![t] = Idle]
    /\ UNCHANGED <<file, broker_up, now, disk, config, history, resp, remote_addr,
                   run_pc>>

\* The module's state before the first request: scanner is None, and the
\* fields are those BLEScanner.__init__ and load_config give a new instance.
Init ==
    /\ scanner = FALSE
    /\ devices = EmptyRegistry
    /\ file = NoFile
    /\ scanning = FALSE
    /\ \E options \in OptionsInputs :
          LET c == load_config(options)
          IN  /\ mqtt_host = c.mqtt_host
              /\ bleProxies = c.bleProxies
              /\ mqtt_discovery = c.mqtt_discovery
    /\ mqtt_initialized = FALSE
    /\ mqtt_connected = FALSE
    /\ broker_up \in BOOLEAN
    /\ now = 0
    /\ disk \in SaveOutcomes
    /\ resp = Response("none", <<>>, 0, "none", "none")
    /\ threads = [t \in Threads |-> Idle]
    /\ history = {}
    /\ instances = 0
    /\ remote_addr = IngressProxy
    /\ running = TRUE
    /\ run_pc = "none"

\* An advertisement arrives from the MQTT subscription.
Advertisement == \E adv \in AdvertInputs : _process_ble_advertisement(adv)

\* The registry's API requests.
RegistryRequest ==
    \/ \E m \in UrlMacInputs, d \in ManualBodies : add_device(m, d)
    \/ \E m \in UrlMacInputs : remove_device(m)
    \/ api_clear_devices

\* The registry under advertisements and registry requests, as time passes.
Next == Advertisement \/ RegistryRequest \/ Tick

Spec == Init /\ [][Next]_vars

\* The few advertisements of the connection's specification.
LightAdvertInputs == {NonJson, Json([mac_address |-> MacLowerCD])}

LightAdvertisement == \E adv \in LightAdvertInputs : _process_ble_advertisement(adv)

\* The scan and connection API requests.
ConnRequest == api_start_scan \/ api_stop_scan \/ test_mqtt \/ api_status

\* Every step taken without an API request: the program's (an advertisement
\* handled) and the environment's.
Background == LightAdvertisement \/ BrokerUp \/ BrokerDown

\* The connection under scan requests, a light advertisement stream and a
\* broker that comes and goes.
NextConn == Background \/ ConnRequest

SpecConn == Init /\ [][NextConn]_vars

\* The requests check_ingress guards, from whoever is connected.
ProtectedRequest ==
    \/ before_request("add_device",
                      \E m \in UrlMacInputs : add_device(m, [name |-> NameKitchen]))
    \/ before_request("remove_device", \E m \in UrlMacInputs : remove_device(m))
    \/ before_request("api_clear_devices", api_clear_devices)
    \/ before_request("api_start_scan", api_start_scan)
    \/ before_request("api_stop_scan", api_stop_scan)
    \/ before_request("api_status", api_status)

IngressRequest == ProtectedRequest \/ before_request("api_health", api_health)

\* The API under clients of several addresses and a light advertisement stream.
NextIngress == accept \/ IngressRequest \/ LightAdvertisement

SpecIngress == Init /\ [][NextIngress]_vars

\* run under a shutdown signal, next to a health probe and a light
\* advertisement stream.
NextRun ==
    \/ run_start
    \/ run_load_devices
    \/ KeyboardInterrupt
    \/ api_health
    \/ LightAdvertisement

SpecRun == Init /\ [][NextRun]_vars

\* The requests of the restart's specification.
RestartRequest ==
    \/ \E m \in UrlMacInputs : add_device(m, [name |-> NameKitchen])
    \/ \E m \in UrlMacInputs : remove_device(m)
    \/ api_clear_devices
    \/ api_status

\* The registry over the life of several worker processes.
NextRestart == RestartRequest \/ LightAdvertisement \/ restart

SpecRestart == Init /\ [][NextRestart]_vars

\* What a handler does once its test of scanner found the instance.
InitRequest ==
    \/ \E m \in UrlMacInputs : add_device(m, [name |-> NameKitchen])
    \/ api_status
    \/ LightAdvertisement

\* The first requests of a worker on its threads: each handler tests
\* `scanner is None` on its own, and the rest of the handler runs on the
\* instance the global names by then.
NextInit ==
    \/ \E t \in Threads : init_scanner_check(t)
    \/ \E t \in Threads : init_scanner_assign(t)
    \/ scanner /\ InitRequest

SpecInit == Init /\ [][NextInit]_vars

\* The writers' steps on some thread, save_devices taken statement by
\* statement.
NextSave ==
    \/ \E t \in Threads, m \in ThreadMacs, d \in ThreadBodies : add_device_build(t, m, d)
    \/ \E t \in Threads : devices_store(t)
    \/ \E t \in Threads : clear_devices_rebind(t)
    \/ \E t \in Threads : save_open(t)
    \/ \E t \in Threads : save_dump(t)
    \/ \E t \in Threads : save_close(t)

SpecSave == Init /\ [][NextSave]_vars

\* A writer's steps on some thread.
Writer ==
    \/ \E t \in Threads, m \in ThreadMacs, d \in ThreadBodies : add_device_build(t, m, d)
    \/ \E t \in Threads, adv \in ThreadAdverts : advertisement_build(t, adv)
    \/ \E t \in Threads : devices_store(t)
    \/ \E t \in Threads : devices_save(t)
    \/ \E t \in Threads : clear_devices_rebind(t)

\* A reader's steps on some thread.
Reader ==
    \/ \E t \in Threads : api_devices_get(t)
    \/ \E t \in Threads : api_devices_serialise(t)
    \/ \E t \in Threads : api_devices_return(t)

\* The registry under request threads that interleave statement by statement.
NextThreads == Writer \/ Reader

SpecThreads == Init /\ [][NextThreads]_vars

\* -------------------------------------------------------------- status
ADDON_VERSION == "1.0.50"

\* get_status counting no device.
get_status_no_count ==
    [version |-> ADDON_VERSION,
     running |-> running,
     scanning |-> scanning,
     mqtt_connected |-> mqtt_connected,
     mqtt_host |-> mqtt_host,
     total_proxies |-> Len(bleProxies),
     devices_count |-> 0,
     ble_proxies |-> bleProxies]

\* BLEScanner.get_status
get_status ==
    [version |-> ADDON_VERSION,
     running |-> running,
     scanning |-> scanning,
     mqtt_connected |-> mqtt_connected,
     mqtt_host |-> mqtt_host,
     total_proxies |-> Len(bleProxies),
     devices_count |-> Cardinality(DOMAIN devices),
     ble_proxies |-> bleProxies]

\* ------------------------------------------------------------ properties
\* The key an advertisement's record is stored under.
AdvertKey(adv) == ToUpper(RawMac(adv.data))

\* The advertisement carries a MAC (and so is stored).
Stored(adv) == adv.json /\ HasMac(adv.data)

\* The step is an observation of the MAC stored under key k. (The test of
\* resp' comes first only to spare evaluating the action on other steps.)
Observes(k) ==
    \/ /\ resp'.op = "advert"
       /\ \E adv \in AdvertInputs :
             Stored(adv) /\ AdvertKey(adv) = k /\ _process_ble_advertisement(adv)
    \/ /\ resp'.op = "add"
       /\ \E m \in UrlMacInputs, d \in ManualBodies :
             d # NoBody /\ IsObject(d) /\ ToUpper(m) = k /\ add_device(m, d)

\* No two keys of the registry devs are the same MAC in different letter case.
OnePerMac(devs) ==
    \A j, k \in DOMAIN devs : ToUpper(j) = ToUpper(k) => j = k

\* C1: after any sequence of advertisements, manual adds, removes and clears
\* the registry holds one record per MAC: every record's mac_address is the key
\* it is stored under, no two keys are the same MAC, and an observation of a
\* MAC already present leaves the set of keys as it was.
C1_OneRecordPerMac ==
    [][ /\ \A k \in DOMAIN devices' : devices'[k].mac_address = k
        /\ OnePerMac(devices')
        /\ \/ DOMAIN devices' = DOMAIN devices
           \/ \A k \in DOMAIN devices : ~Observes(k) ]_vars

\* C1 witness: a manual add of a lower-case MAC answered 200 with two MACs held.
C1_Witness ==
    /\ resp.op = "add" /\ resp.code = 200 /\ resp.mac = MacLowerAB
    /\ DOMAIN devices = {MacUpperAB, ToUpper(MacLowerCD)}
    /\ devices[MacUpperAB].last_seen = MaxTime

\* The record r was created by the manual add operation.
IsManual(r) == "added_manually" \in DOMAIN r /\ r.added_manually

\* C2: an advertisement for a MAC whose record has added_manually = true leaves
\* that record's name as it was, and added_manually true.
C2_ManualNameKept ==
    [][ \A k \in DOMAIN devices :
           (IsManual(devices[k]) /\ Advertisement /\ k \in DOMAIN devices')
              => (devices'[k].name = devices[k].name /\ IsManual(devices'[k])) ]_vars

\* C3: every record has a seen_count, 1 on the first observation of its MAC,
\* one more on every later observation, and never less than before.
C3_SeenCount ==
    [][ \A k \in DOMAIN devices' :
           /\ "seen_count" \in DOMAIN devices'[k]
           /\ k \notin DOMAIN devices => devices'[k].seen_count = 1
           /\ k \in DOMAIN devices =>
                 /\ devices'[k].seen_count >= devices[k].seen_count
                 /\ Observes(k) => devices'[k].seen_count = devices[k].seen_count + 1 ]_vars

\* C4: every record has a first_seen, set when the record is created and not
\* changed afterwards, and last_seen >= first_seen.
C4_FirstSeen ==
    [][ \A k \in DOMAIN devices' :
           /\ "first_seen" \in DOMAIN devices'[k]
           /\ devices'[k].last_seen >= devices'[k].first_seen
           /\ k \in DOMAIN devices => devices'[k].first_seen = devices[k].first_seen ]_vars

\* C5: an advertisement, manual add or remove given a MAC in any letter case
\* acts on the record keyed by that MAC in upper case, and the registry never
\* holds two keys that differ only in letter case. (Each step is tested for
\* being the operation last, after the cheaper tests.)
C5_CaseInsensitiveKeys ==
    [][ /\ OnePerMac(devices')
        /\ \/ resp'.op # "advert"
           \/ \A adv \in AdvertInputs :
                 \/ ~Stored(adv)
                 \/ DOMAIN devices' = DOMAIN devices \cup {AdvertKey(adv)}
                 \/ ~_process_ble_advertisement(adv)
        /\ \/ resp'.op # "add"
           \/ \A m \in UrlMacInputs, d \in ManualBodies :
                 \/ d = NoBody \/ ~IsObject(d)
                 \/ DOMAIN devices' = DOMAIN devices \cup {ToUpper(m)}
                 \/ ~add_device(m, d)
        /\ \/ resp'.op # "remove"
           \/ \A m \in UrlMacInputs :
                 \/ DOMAIN devices' = DOMAIN devices \ {ToUpper(m)}
                 \/ ~remove_device(m) ]_vars

\* C5 witness: a remove given the MAC in lower case found the record.
C5_Witness ==
    /\ resp.op = "remove" /\ resp.mac = MacLowerAB /\ resp.code = 200
    /\ MacUpperAB \notin DOMAIN devices
    /\ devices # EmptyRegistry

\* C6: right after clear_devices the registry is empty, a DELETE of any MAC
\* answers 404, and the status counts no device.
C6_ClearIsTotal ==
    resp.op = "clear" =>
        /\ devices = EmptyRegistry
        /\ \A m \in UrlMacInputs : remove_status(devices, m) = 404
        /\ get_status.devices_count = 0

\* C6 witness: a clear answered, late enough for records to have been there,
\* and wrote the empty registry to the file.
C6_Witness ==
    /\ resp.op = "clear" /\ resp.code = 200 /\ resp.saved = "ok"
    /\ now = MaxTime
    /\ file = [state |-> "written", doc |-> <<>>]

\* C7: when save_devices has written the file, load_devices into an empty
\* registry gives the registry that was saved: the same keys, the same records.
C7_RoundTrip ==
    resp.saved = "ok" => load_devices(EmptyRegistry, file) = devices

\* C7 witness: a written file that holds a manual and an advertised record.
C7_Witness ==
    /\ resp.saved = "ok"
    /\ \E k \in DOMAIN devices : IsManual(devices[k])
    /\ \E k \in DOMAIN devices : "metadata" \in DOMAIN devices[k]
    /\ file.state = "written" /\ Len(file.doc) = Cardinality(DOMAIN devices)

\* C8: while scanning with a resolved broker host and no connection, the
\* program connects on its own once the broker is reachable: a step that is no
\* API request can make mqtt_connected true.
C8_RetriesOnItsOwn ==
    (scanning /\ mqtt_host # NoHost /\ ~mqtt_connected /\ broker_up)
        => ENABLED (Background /\ mqtt_connected')

\* C9: the registry never holds a record under the empty MAC.
C9_NoEmptyMac == EmptyMac \notin DOMAIN devices

\* C10: a remove of a MAC that is present answers 200 and deletes that record
\* and no other; a remove of a MAC that is absent answers 404 and leaves the
\* registry and the file as they were.
C10_Remove ==
    [][ \A m \in UrlMacInputs :
           \/ resp'.op # "remove"
           \/ IF ToUpper(m) \in DOMAIN devices
              THEN /\ resp'.code = 200
                   /\ DOMAIN devices' = DOMAIN devices \ {ToUpper(m)}
                   /\ \A k \in DOMAIN devices' : devices'[k] = devices[k]
              ELSE /\ resp'.code = 404
                   /\ devices' = devices
                   /\ file' = file
           \/ ~remove_device(m) ]_vars

\* C10 witness: a remove of an unknown MAC answered 404 on a registry that
\* holds a record and has a written file.
C10_Witness ==
    /\ resp.op = "remove" /\ resp.code = 404
    /\ devices # EmptyRegistry
    /\ file.state = "written"

\* The per-observation fields an observation may supply.
ObservedFields == {"rssi", "manufacturer", "services"}

\* The record under key k of devs has every field the observation `data`
\* supplied, and the time t of that observation.
Latest(devs, k, data, t) ==
    /\ k \in DOMAIN devs
    /\ devs[k].last_seen = t
    /\ \A f \in ObservedFields \cap DOMAIN data : devs[k][f] = data[f]

\* C11: after an observation of a MAC (an advertisement or a manual add), the
\* record's rssi, manufacturer and services are those the observation
\* supplied, its last_seen is the time of the observation, and its source is
\* the observation's: 'mqtt' for an advertisement, and for a manual add, which
\* names no source, not the source of an earlier observation.
C11_MostRecentWins ==
    [][ /\ \/ resp'.op # "advert"
           \/ \A adv \in AdvertInputs :
                 \/ ~Stored(adv)
                 \/ /\ Latest(devices', AdvertKey(adv), adv.data, now)
                    /\ "source" \in DOMAIN devices'[AdvertKey(adv)]
                    /\ devices'[AdvertKey(adv)].source = <<"mqtt">>
                 \/ ~_process_ble_advertisement(adv)
        /\ \/ resp'.op # "add"
           \/ \A m \in UrlMacInputs, d \in ManualBodies :
                 \/ d = NoBody \/ ~IsObject(d)
                 \/ /\ Latest(devices', ToUpper(m), d, now)
                    /\ "source" \notin DOMAIN devices'[ToUpper(m)]
                 \/ ~add_device(m, d) ]_vars

\* C11 witness: an advertisement with rssi -50 took the place of a record of
\* the same MAC, at the latest time.
C11_Witness ==
    /\ resp.op = "advert" /\ resp.replaced
    /\ MacUpperAB \in DOMAIN devices
    /\ devices[MacUpperAB].rssi = -50
    /\ devices[MacUpperAB].last_seen = MaxTime

\* The outcomes of save_devices in which the file was not written.
FailedSaves == {"open_fails", "write_fails"}

\* C12: when the write of the device file failed, the handler still answered
\* as it does on success (200 for add, remove and clear; stored for an
\* advertisement) and the registry holds the mutation: the added or advertised
\* record is there, the removed one is gone, the cleared registry is empty.
\* And load_devices of a file that cannot be read leaves the registry as it is.
C12_PersistenceAdvisory ==
    /\ resp.saved \in FailedSaves =>
          CASE resp.op = "add" ->
                 /\ resp.code = 200
                 /\ ToUpper(resp.mac) \in DOMAIN devices
                 /\ \E d \in ManualBodies, t \in 0..MaxTime :
                       d # NoBody /\ IsObject(d)
                       /\ devices[ToUpper(resp.mac)] = ManualDevice(resp.mac, d, t)
            [] resp.op = "remove" ->
                 resp.code = 200 /\ ToUpper(resp.mac) \notin DOMAIN devices
            [] resp.op = "clear" ->
                 resp.code = 200 /\ devices = EmptyRegistry
            [] resp.op = "advert" ->
                 /\ resp.status = "stored"
                 /\ \E adv \in AdvertInputs, t \in 0..MaxTime :
                       /\ Stored(adv)
                       /\ AdvertKey(adv) \in DOMAIN devices
                       /\ devices[AdvertKey(adv)] = DeviceInfo(adv.data, t)
            [] OTHER -> FALSE
    /\ file.state # "written" => load_devices(devices, file) = devices

\* C12 witness: a manual add answered 200 although the write failed half way:
\* the record is in the registry and the file is unreadable.
C12_Witness ==
    /\ resp.op = "add" /\ resp.code = 200 /\ resp.saved = "write_fails"
    /\ file.state = "corrupt"
    /\ ToUpper(resp.mac) \in DOMAIN devices
    /\ Cardinality(DOMAIN devices) > 1

\* The advertisement is malformed: not JSON, or JSON without a MAC key.
Malformed(adv) == ~Stored(adv)

\* C13: a malformed advertisement changes neither the registry, the file, the
\* scanning flag nor the connection state, and the handler returns (it notes
\* the payload as dropped, no exception leaves it); after it a well-formed
\* advertisement can still be processed, and is stored.
C13_MalformedDropped ==
    /\ [][ \A adv \in AdvertInputs :
              \/ ~Malformed(adv)
              \/ resp'.op # "advert"
              \/ ~_process_ble_advertisement(adv)
              \/ /\ UNCHANGED <<devices, file, scanning, mqtt_connected, mqtt_host,
                                mqtt_initialized>>
                 /\ resp'.status = "dropped" ]_vars
    /\ []((resp.op = "advert" /\ resp.status = "dropped") =>
            \A adv \in AdvertInputs :
               Stored(adv) =>
                  ENABLED (/\ _process_ble_advertisement(adv)
                           /\ resp'.status = "stored"
                           /\ AdvertKey(adv) \in DOMAIN devices'))

\* C13 witness: a payload was dropped while the registry held records and the
\* file was written.
C13_Witness ==
    /\ resp.op = "advert" /\ resp.status = "dropped"
    /\ Cardinality(DOMAIN devices) > 1
    /\ file.state = "written"

\* C14: whatever becomes of the publish of a stored advertisement (logged,
\* skipped because the broker is not connected, or not attempted), the record
\* is in the registry after the handler, it is in the file when the file was
\* written, and the handler completes as for any stored advertisement. The
\* publish is skipped exactly when discovery is on and the broker is not
\* connected.
C14_PublishNeverRollsBack ==
    [][ \A adv \in AdvertInputs :
           \/ ~Stored(adv)
           \/ resp'.op # "advert"
           \/ ~_process_ble_advertisement(adv)
           \/ /\ resp'.status = "stored"
              /\ (resp'.published = "skipped") = (mqtt_discovery /\ ~mqtt_connected)
              /\ AdvertKey(adv) \in DOMAIN devices'
              /\ devices'[AdvertKey(adv)] = DeviceInfo(adv.data, now)
              /\ disk = "ok" =>
                    /\ file'.state = "written"
                    /\ AdvertKey(adv) \in DOMAIN json_load(file'.doc)
                    /\ json_load(file'.doc)[AdvertKey(adv)] = DeviceInfo(adv.data, now)
       ]_vars

\* C14 witness: with discovery on and the broker not connected, while
\* scanning, an advertisement's publish was skipped; its record is in the
\* registry and in the written file.
C14_Witness ==
    /\ resp.op = "advert" /\ resp.status = "stored" /\ resp.published = "skipped"
    /\ scanning /\ mqtt_discovery /\ ~mqtt_connected
    /\ ToUpper(MacLowerCD) \in DOMAIN devices
    /\ file.state = "written" /\ Len(file.doc) = 1

\* C15: a manual add with a JSON object as body stores, under the MAC in upper
\* case, a record with added_manually = true and the name of the body,
\* whether or not a record was there before and whatever its name was.
C15_ManualAdd ==
    [][ \/ resp'.op # "add"
        \/ \A m \in UrlMacInputs, d \in ManualBodies :
              \/ d = NoBody \/ ~IsObject(d)
              \/ /\ ToUpper(m) \in DOMAIN devices'
                 /\ IsManual(devices'[ToUpper(m)])
                 /\ "name" \in DOMAIN d => devices'[ToUpper(m)].name = d.name
              \/ ~add_device(m, d) ]_vars

\* C15 witness: a manual add took the place of a record of the same MAC and
\* the record now has the name of the request.
C15_Witness ==
    /\ resp.op = "add" /\ resp.code = 200 /\ resp.replaced
    /\ devices[ToUpper(resp.mac)].name = NameKitchen
    /\ IsManual(devices[ToUpper(resp.mac)])

\* A body add_device can make a record of: not empty, and a JSON object.
Usable(d) == d # NoBody /\ IsObject(d)

\* C16: POST /api/devices/<mac> with a usable JSON body answers 200, and the
\* registry then holds, under the MAC in upper case, the record made of the
\* body, whose mac_address is that key; with any other body it answers 400 and
\* leaves the registry and the file as they were.
C16_PostStatus ==
    [][ \/ resp'.op # "add"
        \/ \A m \in UrlMacInputs, d \in ManualBodies :
              \/ IF Usable(d)
                 THEN /\ resp'.code = 200
                      /\ ToUpper(m) \in DOMAIN devices'
                      /\ devices'[ToUpper(m)] = ManualDevice(m, d, now)
                      /\ devices'[ToUpper(m)].mac_address = ToUpper(m)
                 ELSE /\ resp'.code = 400
                      /\ UNCHANGED <<devices, file>>
              \/ ~add_device(m, d) ]_vars

\* C17: start_scan answers 'started' and sets scanning exactly when scanning
\* was false, and otherwise answers 'already_running' and changes nothing;
\* stop_scan answers 'stopped' and clears scanning exactly when scanning was
\* true, and otherwise answers 'not_running' and leaves the scan flag and the
\* connection as they were; neither changes the registry or the file, and
\* both answer 200 with the broker reachable or not.
C17_ScanControl ==
    [][ /\ (resp'.op = "start" /\ api_start_scan) =>
              /\ resp'.code = 200
              /\ UNCHANGED <<devices, file>>
              /\ IF ~scanning
                 THEN resp'.status = "started" /\ scanning'
                 ELSE /\ resp'.status = "already_running"
                      /\ UNCHANGED <<scanner, scanning, mqtt_host, mqtt_initialized,
                                     mqtt_connected>>
        /\ (resp'.op = "stop" /\ api_stop_scan) =>
              /\ resp'.code = 200
              /\ UNCHANGED <<devices, file, mqtt_connected>>
              /\ IF scanning
                 THEN resp'.status = "stopped" /\ ~scanning'
                 ELSE resp'.status = "not_running" /\ ~scanning' ]_vars

\* C17 witness: scanning was started with the broker unreachable and no
\* connection, on a registry that holds a record.
C17_Witness ==
    /\ resp.op = "start" /\ resp.status = "started" /\ resp.code = 200
    /\ scanning /\ ~broker_up /\ ~mqtt_connected
    /\ devices # EmptyRegistry

\* The number of proxies in each options.json the scanner may have loaded.
ConfiguredProxies == {Len(load_config(o).bleProxies) : o \in OptionsInputs}

\* C18: in every state get_status gives devices_count = the number of records
\* of the registry, scanning = the scan flag, mqtt_connected = the connection
\* flag and total_proxies = the number of configured proxies; and GET
\* /api/status changes none of the four.
C18_StatusConsistent ==
    /\ [](/\ get_status.devices_count = Cardinality(DOMAIN devices)
          /\ get_status.scanning = scanning
          /\ get_status.mqtt_connected = mqtt_connected
          /\ get_status.total_proxies = Len(bleProxies)
          /\ get_status.total_proxies \in ConfiguredProxies)
    /\ [][(resp'.op = "status" /\ api_status) =>
             UNCHANGED <<devices, scanning, mqtt_connected, bleProxies>>]_vars

\* C18 witness: the status was read while scanning and connected, with a
\* record in the registry and two proxies configured.
C18_Witness ==
    /\ resp.op = "status" /\ resp.code = 200
    /\ get_status.devices_count = 1
    /\ get_status.scanning /\ get_status.mqtt_connected
    /\ get_status.total_proxies = 2

\* The broker hosts a connection can be made to.
ResolvedHosts == {ConfiguredHost, DetectedHost}

\* C19: mqtt_connected, which the status reports as it is, is false at the
\* start; it becomes true only in a step of start_scan or test_mqtt whose
\* connection attempt reached the broker (the broker was up, the host was
\* resolved); and it is never true while no broker host is resolved.
C19_ConnectedOnlyOnSuccess ==
    /\ ~mqtt_connected
    /\ [][(mqtt_connected' /\ ~mqtt_connected) =>
             /\ resp'.op \in {"start", "test_mqtt"}
             /\ broker_up
             /\ mqtt_host' \in ResolvedHosts]_vars
    /\ [](/\ mqtt_connected => mqtt_host \in ResolvedHosts
          /\ get_status.mqtt_connected = mqtt_connected)

\* C19 witness: auto-detection found no broker, so no host is resolved; the
\* broker has come up since and a connection test was made, and the status
\* still reports no connection.
C19_Witness ==
    /\ resp.op = "test_mqtt" /\ resp.code = 500
    /\ mqtt_host = NoHost /\ broker_up
    /\ ~get_status.mqtt_connected

\* The registry `devs` shows only whole records: each is one that a store has
\* written, under the key that is its MAC.
Whole(devs) ==
    \A k \in DOMAIN devs : devs[k] \in history /\ devs[k].mac_address = k

\* C20: with writers and readers interleaving statement by statement, every
\* record that GET /api/devices returns, and every record of the registry, is
\* exactly one record that one store has written, never fields of two; and a
\* read that overlaps a write answers 200.
C20_NoTornRead ==
    /\ Whole(devices)
    /\ \A t \in Threads :
          threads[t].pc = "done" => (threads[t].code = 200 /\ Whole(threads[t].out))

\* C20 witness: a read that began before another thread's store returned the
\* record of that store, while that writer had not yet saved.
C20_Witness ==
    \E t, u \in Threads :
       /\ threads[t].pc = "done" /\ threads[t].out # EmptyRegistry
       /\ threads[u].pc = "save"
       /\ threads[t].out[threads[u].key] = threads[u].rec
       /\ file.state = "absent"

\* C26: while scanning is false an advertisement neither creates nor changes a
\* record: a step of the advertisement handler changes the registry only when
\* scanning is true.
C26_ScanningGatesIngestion ==
    [][(resp'.op = "advert" /\ devices' # devices) => scanning]_vars

\* C29: a start_scan or MQTT test made while the broker is unreachable leaves
\* mqtt_connected false, so the status does not go on reporting a connection
\* to a broker that is gone.
C29_ConnectedTracksBroker ==
    [][(resp'.op \in {"start", "test_mqtt"} /\ (api_start_scan \/ test_mqtt)
           /\ resp'.status # "already_running" /\ ~broker_up)
          => ~get_status.mqtt_connected']_vars

\* C24: with discovery disabled an advertisement publishes nothing; with
\* discovery enabled and the broker connected, an advertisement that stores a
\* record publishes one message, whose topic names the MAC of that record, and
\* the record is in the registry when the handler is done.
C24_DiscoveryGated ==
    [][ resp'.op = "advert" =>
          /\ ~mqtt_discovery => (resp'.published = "none" /\ resp'.topic = <<>>)
          /\ (mqtt_discovery /\ mqtt_connected /\ resp'.status = "stored") =>
                /\ resp'.published = "logged"
                /\ resp'.topic # <<>>
                /\ \E k \in DOMAIN devices' :
                      /\ resp'.topic[Len(resp'.topic)] = k
                      /\ devices'[k].last_seen = now
                      /\ devices'[k].source = <<"mqtt">> ]_vars

\* C24 witness: discovery is enabled, the broker is connected, and an
\* advertisement was stored and published.
C24_Witness ==
    /\ resp.op = "advert" /\ resp.status = "stored" /\ resp.published = "logged"
    /\ mqtt_discovery /\ mqtt_connected
    /\ resp.topic[Len(resp.topic)] \in DOMAIN devices

\* C25: a published discovery message has a topic of the four levels
\* homeassistant/<component>/<object_id>/config, the object_id being made from
\* the MAC of a record of the registry.
C25_DiscoveryTopicForm ==
    (resp.op = "advert" /\ resp.published = "logged") =>
        /\ Len(resp.topic) = 4
        /\ resp.topic[1] = "homeassistant"
        /\ resp.topic[4] = "config"
        /\ \E k \in DOMAIN devices : Contains(k, resp.topic[3])

\* A remote address that is set and is not one of the allowed addresses.
Foreign(addr) == addr # NoRemoteAddr /\ addr \notin allowed_ips

\* C23: a request from a foreign address to any endpoint but the health
\* endpoint is answered 403 and changes nothing: scanner, registry, file, scan
\* flag and MQTT flags are as before, and no scanner instance is created.
C23_IngressProtection ==
    [][(Foreign(remote_addr) /\ ProtectedRequest) =>
          /\ resp'.code = 403
          /\ UNCHANGED <<scanner, instances, devices, file, scanning, mqtt_host,
                         mqtt_initialized, mqtt_connected>>]_vars

\* C23 witness: a foreign client was denied while the registry held a device.
C23_Witness ==
    /\ Foreign(remote_addr)
    /\ resp.op = "denied" /\ resp.code = 403
    /\ scanner /\ devices # EmptyRegistry

\* C22: a shutdown signal ends run: the step in which KeyboardInterrupt
\* reaches run leaves it returned, with running false.
C22_ShutdownStopsRun ==
    [][KeyboardInterrupt => (run_pc' = "returned" /\ ~running')]_vars

\* The registry an earlier process left in the device file.
Persisted == load_devices(EmptyRegistry, file)

\* C28: when a device file written by an earlier process exists, the request
\* that initialises the scanner, unless it removes devices, leaves every
\* persisted record in the registry, and in the file if it writes the file.
C28_PersistedSurviveRestart ==
    [][(~scanner /\ scanner' /\ file.state = "written"
          /\ resp'.op \in {"add", "status"}) =>
            \A k \in DOMAIN Persisted :
                /\ k \in DOMAIN devices'
                /\ file'.state = "written" => k \in DOMAIN json_load(file'.doc)]_vars

\* C27: at most one BLEScanner instance is ever created.
C27_SingleInstance == instances <= 1

\* The threads that have the device file open for writing.
Saving == {t \in Threads : threads[t].pc \in {"dump", "close"}}

\* C21: no two executions of save_devices have the file open for writing at
\* the same time, and once every writer has finished, on a disk that takes
\* writes, a file that was written holds exactly the registry.
C21_SavesSerialised ==
    /\ Cardinality(Saving) <= 1
    /\ ((\A t \in Threads : threads[t].pc = "idle") /\ disk = "ok"
           /\ file.state # "absent")
          => file = save_devices(devices, NoFile, "ok")
====
